---------------------------- MODULE Spec2Model ----------------------------
(***************************************************************************)
(* Model of the Oxy air-quality engine:                                    *)
(*   decision_engine.py      interpret and its helpers                     *)
(*   history_analyzer.py     analyze_city_from_csv                         *)
(*   historical_analytics.py analyze_pollutant and its helpers             *)
(*   city_report_builder.py  build_city_report                             *)
(*                                                                         *)
(* Numbers.  A finite Python float is modelled by an integer counting      *)
(* hundredths: 55.4 is 5540, 55.41 is 5541, AQI category 4 is 400, the     *)
(* index 120 is 12000.  A Python value is a record [k, v]:                 *)
(*   k = "None"  the absent value None                                     *)
(*   k = "num"   a finite number, v its hundredths                         *)
(*   k = "str"   a value float() cannot parse (it raises)                  *)
(*   k = "nan"   float('nan'), which is also what pandas hands out for an  *)
(*               empty cell of a table                                     *)
(*   k = "inf" / "ninf"   plus and minus infinity                          *)
(***************************************************************************)
EXTENDS Integers, Sequences, FiniteSets, TLC

VARIABLES
    pc,          \* which operation ran last
    c_aqi,       \* interpret: argument aqi
    c_pm25,      \* interpret: argument pm25
    c_ts,        \* interpret: argument timestamp
    c_city,      \* interpret: argument city
    c_out,       \* interpret: what the call produced (a return or a raise)
    series,      \* analyze_pollutant: argument series, a sequence of values
    thresholds,  \* analyze_pollutant: argument thresholds, [safe, hazard]
    p_out,       \* analyze_pollutant: the summary it returned
    hz_out,      \* _count_hazard_entries: the count it returned
    t_out,       \* _detect_trend: the label it returned
    table,       \* analyze_city_from_csv: the rows of the input CSV, in order
    h_city,      \* analyze_city_from_csv: argument city
    df_city,     \* analyze_city_from_csv: the rows kept after filtering
    dropped_rows, \* analyze_city_from_csv: the count of the rows filtered out
    h_out,       \* analyze_city_from_csv: what the call produced
    r_last,      \* build_city_report: the row picked as latest, <<>> if none
    r_out        \* build_city_report: what the call produced

classifyVars == <<c_aqi, c_pm25, c_ts, c_city, c_out>>
seriesVars == <<series, thresholds, p_out, hz_out, t_out>>
cityVars == <<table, h_city, df_city, dropped_rows, h_out>>
reportVars == <<r_last, r_out>>
vars == <<pc, c_aqi, c_pm25, c_ts, c_city, c_out, series, thresholds, p_out,
          hz_out, t_out, table, h_city, df_city, dropped_rows, h_out,
          r_last, r_out>>

---------------------------------------------------------------------------
(* Python values *)

None == [k |-> "None", v |-> 0]
NaN == [k |-> "nan", v |-> 0]
PosInf == [k |-> "inf", v |-> 0]
NegInf == [k |-> "ninf", v |-> 0]
BadStr == [k |-> "str", v |-> 0]
Num(n) == [k |-> "num", v |-> n]

\* The outcome of a call: a returned value or a raised exception.
Return(x) == [exc |-> FALSE, val |-> x]
Raise == [exc |-> TRUE, val |-> 0]

\* float(x) raises for None and for an unparseable value; otherwise it is x
\* as a float.
FloatRaises(x) == x.k \in {"None", "str"}

\* a <= c for a float a and a finite literal c: every comparison with NaN is
\* False.
FloatLE(a, c) ==
    CASE a.k = "num" -> a.v <= c
      [] a.k = "ninf" -> TRUE
      [] OTHER -> FALSE

\* round(a) of a finite float, to an int: ties go to the even neighbour.
PyRound(h) ==
    LET q == h \div 100
        r == h % 100
    IN  IF r < 50 THEN q
        ELSE IF r > 50 THEN q + 1
        ELSE IF q % 2 = 0 THEN q ELSE q + 1

\* int(round(a)) raises ValueError for NaN and OverflowError for infinities.
IntRoundRaises(a) == a.k \in {"nan", "inf", "ninf"}

Max(a, b) == IF a >= b THEN a ELSE b

---------------------------------------------------------------------------
(* decision_engine.py *)

LEVEL_NAMES == <<"Normal", "Moderate", "Unhealthy", "Hazardous">>

\* LEVEL_NAMES[level], Python's index 0 being TLA+'s index 1.
LevelName(level) == LEVEL_NAMES[level + 1]

AQI_CATEGORY_MAX == 500
AQI_NORMAL_MAX == 5000
AQI_MODERATE_MAX == 10000
AQI_UNHEALTHY_MAX == 20000
PM25_NORMAL_MAX == 1200
PM25_MODERATE_MAX == 3540
PM25_UNHEALTHY_MAX == 5540

\* A plausible slip: category 4 read as Hazardous.
CategoryLevelPoorIsHazardous(cat) ==
    IF cat <= 1 THEN 0
    ELSE IF cat = 2 THEN 1
    ELSE IF cat = 3 THEN 2
    ELSE 3

\* The OpenWeather category branch of _aqi_to_level.
CategoryLevel(cat) ==
    IF cat <= 1 THEN 0
    ELSE IF cat = 2 THEN 1
    ELSE IF cat = 3 THEN 2
    ELSE IF cat = 4 THEN 2
    ELSE 3

\* The numeric-index branch of _aqi_to_level, reached when not (a <= 5).
IndexLevel(a) ==
    IF FloatLE(a, AQI_NORMAL_MAX) THEN 0
    ELSE IF FloatLE(a, AQI_MODERATE_MAX) THEN 1
    ELSE IF FloatLE(a, AQI_UNHEALTHY_MAX) THEN 2
    ELSE 3

_aqi_to_level(aqi) ==
    IF aqi.k = "None" THEN Return(0)
    ELSE IF FloatRaises(aqi) THEN Return(0)
    ELSE IF FloatLE(aqi, AQI_CATEGORY_MAX)
         THEN IF IntRoundRaises(aqi) THEN Raise
              ELSE Return(CategoryLevel(PyRound(aqi.v)))
         ELSE Return(IndexLevel(aqi))

\* A plausible slip: the breakpoints exclusive instead of inclusive.
Pm25BreakpointsExclusive(p) ==
    IF p.k = "ninf" \/ (p.k = "num" /\ p.v < PM25_NORMAL_MAX) THEN 0
    ELSE IF p.k = "num" /\ p.v < PM25_MODERATE_MAX THEN 1
    ELSE IF p.k = "num" /\ p.v < PM25_UNHEALTHY_MAX THEN 2
    ELSE 3

\* The breakpoints of _pm25_to_level, applied to the float p.
Pm25Breakpoints(p) ==
    IF FloatLE(p, PM25_NORMAL_MAX) THEN 0
    ELSE IF FloatLE(p, PM25_MODERATE_MAX) THEN 1
    ELSE IF FloatLE(p, PM25_UNHEALTHY_MAX) THEN 2
    ELSE 3

_pm25_to_level(pm25) ==
    IF pm25.k = "None" THEN 0
    ELSE IF FloatRaises(pm25) THEN 0
    ELSE Pm25Breakpoints(pm25)

\* One reason string, by its parts: which pollutant it is about, what it
\* says ("missing", "invalid", or how the value was read), the value shown
\* and the sub-level label in parentheses.
Reason(about, says, shown, label) ==
    [about |-> about, says |-> says, shown |-> shown, label |-> label]

\* The AQI entry of _reason_strings.
AqiReason(aqi) ==
    IF aqi.k = "None" THEN Return(Reason("AQI", "missing", None, ""))
    ELSE IF FloatRaises(aqi) THEN Return(Reason("AQI", "invalid", None, ""))
    ELSE IF IntRoundRaises(aqi) THEN Raise
    ELSE IF _aqi_to_level(aqi).exc THEN Raise
    ELSE IF FloatLE(aqi, AQI_CATEGORY_MAX)
         THEN Return(Reason("AQI", "category", Num(PyRound(aqi.v) * 100),
                            LevelName(_aqi_to_level(aqi).val)))
         ELSE Return(Reason("AQI", "index", Num(PyRound(aqi.v) * 100),
                            LevelName(_aqi_to_level(aqi).val)))

\* The PM2.5 entry of _reason_strings: the value is printed as it came.
Pm25Reason(pm25) ==
    IF pm25.k = "None" THEN Reason("PM2.5", "missing", None, "")
    ELSE Reason("PM2.5", "value", pm25, LevelName(_pm25_to_level(pm25)))

_reason_strings(aqi, pm25) ==
    IF AqiReason(aqi).exc THEN Raise
    ELSE Return(<<AqiReason(aqi).val, Pm25Reason(pm25)>>)

REC_N1 == "Outdoor activities are safe for most people."
REC_N2 == "No special precautions needed for healthy individuals."
REC_N3 == "Vulnerable groups may still follow usual care (asthma meds)."
REC_M1 == "Unusually sensitive people should consider reducing prolonged or heavy exertion outdoors."
REC_M2 == "Keep windows closed during heavy traffic or dust events."
REC_M3 == "Consider indoor light activity instead of vigorous outdoor exercise."
REC_U1 == "Avoid vigorous outdoor exercise; prefer indoor exercise with good filtration."
REC_U2 == "People with respiratory or cardiovascular conditions should follow their action plans and limit outdoor time."
REC_U3 == "Consider using an N95/FFP2 mask when outdoors in crowded or polluted areas."
REC_H1 == "Stay indoors and keep windows and doors closed where possible."
REC_H2 == "Use indoor air cleaners (HEPA) or portable filters if available."
REC_H3 == "Vulnerable people (children, elderly, pregnant, chronic disease) should avoid all outdoor exertion."
REC_MASK == "Use an N95/FFP2 mask when you must go outside; cloth masks offer limited PM2.5 protection."
REC_ROADS == "Avoid activities near busy roads, construction, or open burning."
REC_PLAN == "Follow medical action plans if you have asthma or heart disease; keep rescue meds at hand."

\* A plausible slip: the list for Normal one item short.
BaseRecommendationsShortNormal(level) ==
    IF level = 0 THEN <<REC_N1, REC_N2>>
    ELSE IF level = 1 THEN <<REC_M1, REC_M2, REC_M3>>
    ELSE IF level = 2 THEN <<REC_U1, REC_U2, REC_U3>>
    ELSE <<REC_H1, REC_H2, REC_H3>>

_base_recommendations(level) ==
    IF level = 0 THEN <<REC_N1, REC_N2, REC_N3>>
    ELSE IF level = 1 THEN <<REC_M1, REC_M2, REC_M3>>
    ELSE IF level = 2 THEN <<REC_U1, REC_U2, REC_U3>>
    ELSE <<REC_H1, REC_H2, REC_H3>>

SeqHas(s, x) == \E i \in 1..Len(s) : s[i] = x

\* A plausible slip: the mask item appended without looking at the list.
Pm25AdjustAlwaysMask(recs, pm25_level) ==
    IF pm25_level >= 2 THEN recs \o <<REC_MASK, REC_ROADS>> ELSE recs

\* The pollutant-specific additions of interpret.
Pm25Adjust(recs, pm25_level) ==
    IF pm25_level >= 2
    THEN (IF ~SeqHas(recs, REC_U3) THEN Append(recs, REC_MASK) ELSE recs)
         \o <<REC_ROADS>>
    ELSE recs

AqiAdjust(recs, aqi_level) ==
    IF aqi_level >= 2 /\ ~SeqHas(recs, REC_U2)
    THEN Append(recs, REC_PLAN)
    ELSE recs

MAX_RECS == 6

\* The deduplication loop of interpret: first occurrences in order, the loop
\* left once MAX_RECS items are kept.
RECURSIVE DedupFrom(_, _, _)
DedupFrom(recs, i, deduped) ==
    IF i > Len(recs) THEN deduped
    ELSE LET d == IF SeqHas(deduped, recs[i]) THEN deduped
                  ELSE Append(deduped, recs[i])
         IN  IF Len(d) >= MAX_RECS THEN d ELSE DedupFrom(recs, i + 1, d)

Dedup(recs) == DedupFrom(recs, 1, <<>>)

\* A plausible slip: the levels averaged instead of the worse one taken.
CombineLevelsAverage(aqi_level, pm25_level) == (aqi_level + pm25_level) \div 2

\* level = max(aqi_level, pm25_level)
CombineLevels(aqi_level, pm25_level) == Max(aqi_level, pm25_level)

\* Python truthiness of an optional string argument.
Truthy(s) == s # ""

\* The dict interpret returns; the keys city and timestamp exist only when
\* the argument is truthy.  "" stands for None in timestamp and city.
InterpretOut(aqi, pm25, timestamp, city) ==
    LET aqi_level == _aqi_to_level(aqi).val
        pm25_level == _pm25_to_level(pm25)
        level == CombineLevels(aqi_level, pm25_level)
        recs == AqiAdjust(Pm25Adjust(_base_recommendations(level), pm25_level),
                          aqi_level)
        base == [risk_level |-> LevelName(level),
                 score |-> level,
                 reasons |-> _reason_strings(aqi, pm25).val,
                 recommendations |-> Dedup(recs),
                 explanation |-> <<"Air quality assessed as", LevelName(level)>>]
        withCity == IF Truthy(city) THEN base @@ [city |-> city] ELSE base
    IN  IF Truthy(timestamp) THEN withCity @@ [timestamp |-> timestamp]
        ELSE withCity

interpret(aqi, pm25, timestamp, city) ==
    IF _aqi_to_level(aqi).exc THEN Raise
    ELSE IF _reason_strings(aqi, pm25).exc THEN Raise
    ELSE Return(InterpretOut(aqi, pm25, timestamp, city))

---------------------------------------------------------------------------
(* historical_analytics.py *)

\* An exact fraction n / d with d > 0: the value of a float expression whose
\* operands are the series' numbers (rounding of the float arithmetic is not
\* modelled).
Frac(n, d) == [n |-> n, d |-> d]
Abs(x) == IF x < 0 THEN 0 - x ELSE x
FracSub(a, b) == Frac(a.n * b.d - b.n * a.d, a.d * b.d)
FracAbs(a) == Frac(Abs(a.n), a.d)
\* a / b for b > 0
FracDiv(a, b) == Frac(a.n * b.d, a.d * b.n)
FracGE(a, b) == a.n * b.d >= b.n * a.d
FracLE(a, b) == a.n * b.d <= b.n * a.d

\* A statistic that is present: a fraction, tagged like the other values.
Stat(f) == [k |-> "frac", v |-> f]
\* A count that is present.
Count(n) == [k |-> "int", v |-> n]

IsNum(e) == e.k = "num"

\* pd.to_numeric(series, errors="coerce"): what is no number becomes NaN.
ToNumeric(s) == [i \in 1..Len(s) |-> IF s[i].k \in {"num", "inf", "ninf"} THEN s[i] ELSE NaN]

\* series.dropna()
DropNa(s) == SelectSeq(s, LAMBDA e : e.k # "nan")

\* series.fillna(x)
FillNa(s, x) == [i \in 1..Len(s) |-> IF s[i].k = "nan" THEN x ELSE s[i]]

\* a > c for a float a and a finite number c.
FloatGT(a, c) ==
    CASE a.k = "num" -> a.v > c
      [] a.k = "inf" -> TRUE
      [] OTHER -> FALSE

RECURSIVE SumSeq(_)
SumSeq(s) == IF s = <<>> THEN 0 ELSE s[1].v + SumSeq(Tail(s))

\* The values of s in ascending order.
RECURSIVE InsertSorted(_, _)
InsertSorted(sorted, x) ==
    IF sorted = <<>> THEN <<x>>
    ELSE IF x <= sorted[1] THEN <<x>> \o sorted
    ELSE <<sorted[1]>> \o InsertSorted(Tail(sorted), x)

RECURSIVE SortedValues(_)
SortedValues(s) ==
    IF s = <<>> THEN <<>> ELSE InsertSorted(SortedValues(Tail(s)), s[1].v)

SeriesMin(vals) == SortedValues(vals)[1]
SeriesMax(vals) == SortedValues(vals)[Len(vals)]
SeriesMean(vals) == Frac(SumSeq(vals), Len(vals))
SeriesMedian(vals) ==
    LET sv == SortedValues(vals)
        n == Len(vals)
    IN  IF n % 2 = 1 THEN Frac(sv[(n + 1) \div 2], 1)
        ELSE Frac(sv[n \div 2] + sv[n \div 2 + 1], 2)

\* A plausible slip: the share taken over the entries that are present.
SafeCountOverPresent(s, safe_threshold) ==
    IF DropNa(s) = <<>> THEN Frac(0, 1)
    ELSE Frac(100 * Cardinality({i \in 1..Len(s) : FloatGT(s[i], safe_threshold)}),
              Len(DropNa(s)))

\* (series > safe_threshold).sum() / len(series) * 100.0
_safe_count(s, safe_threshold) ==
    IF DropNa(s) = <<>> THEN Frac(0, 1)
    ELSE Frac(100 * Cardinality({i \in 1..Len(s) : FloatGT(s[i], safe_threshold)}),
              Len(s))

\* A plausible slip: the samples above the threshold counted, not the
\* rising edges.
CountSamplesAbove(s, hazard_threshold) ==
    Cardinality({i \in 1..Len(s) : FloatGT(s[i], hazard_threshold)})

\* A plausible slip: the shift filled with True, so that the start of the
\* series counts as above the threshold.
CountEdgesStartAbove(s, hazard_threshold) ==
    LET filled == FillNa(s, NegInf)
        above == [i \in 1..Len(s) |-> FloatGT(filled[i], hazard_threshold)]
        shifted == [i \in 1..Len(s) |-> IF i = 1 THEN TRUE ELSE above[i - 1]]
    IN  Cardinality({i \in 1..Len(s) : ~shifted[i] /\ above[i]})

_count_hazard_entries(s, hazard_threshold) ==
    LET filled == FillNa(s, NegInf)
        above == [i \in 1..Len(s) |-> FloatGT(filled[i], hazard_threshold)]
        \* above.shift(1, fill_value=False)
        shifted == [i \in 1..Len(s) |-> IF i = 1 THEN FALSE ELSE above[i - 1]]
    IN  Cardinality({i \in 1..Len(s) : ~shifted[i] /\ above[i]})

MIN_OBS == 6
MIN_TREND_OBS == 10
TREND_REL == Frac(5, 100)

\* A plausible slip: the direction reported from MIN_OBS observations on.
TrendVerdictFromSix(n, rel_change) ==
    IF n >= MIN_OBS /\ FracGE(rel_change, TREND_REL) THEN "worsening"
    ELSE IF n >= MIN_OBS /\ FracLE(rel_change, Frac(0 - TREND_REL.n, TREND_REL.d))
         THEN "improving"
    ELSE "no_change"

\* The last three statements of _detect_trend.
TrendVerdict(n, rel_change) ==
    IF n >= MIN_TREND_OBS /\ FracGE(rel_change, TREND_REL) THEN "worsening"
    ELSE IF n >= MIN_TREND_OBS /\ FracLE(rel_change, Frac(0 - TREND_REL.n, TREND_REL.d))
         THEN "improving"
    ELSE "no_change"

_detect_trend(s) ==
    LET vals == DropNa(s)
        n == Len(vals)
        third == Max(1, n \div 3)
        first == SubSeq(vals, 1, third)
        last == SubSeq(vals, n - third + 1, n)
        mean_first == SeriesMean(first)
        mean_last == SeriesMean(last)
        rel_change == IF mean_first.n # 0
                      THEN FracDiv(FracSub(mean_last, mean_first), FracAbs(mean_first))
                      ELSE Frac(0, 1)
    IN  IF n < MIN_OBS THEN "no_change" ELSE TrendVerdict(n, rel_change)

\* A threshold that is given: not None and not NaN.
ThresholdGiven(th) == th.k = "num"

\* The trend of a series without a number, as analyze_pollutant reports it:
\* the key keeps its initial value None.
TREND_NONE == "None"

analyze_pollutant(raw, th) ==
    LET s == ToNumeric(raw)
        vals == DropNa(s)
        n == Len(vals)
    IN  IF n = 0
        THEN [n_measurements |-> 0, min |-> None, max |-> None, mean |-> None,
              median |-> None, percent_above_safe |-> None,
              hazard_entries |-> None, trend |-> TREND_NONE]
        ELSE [n_measurements |-> n,
              min |-> Num(SeriesMin(vals)),
              max |-> Num(SeriesMax(vals)),
              mean |-> Stat(SeriesMean(vals)),
              median |-> Stat(SeriesMedian(vals)),
              percent_above_safe |->
                  IF ThresholdGiven(th.safe) THEN Stat(_safe_count(s, th.safe.v))
                  ELSE None,
              hazard_entries |->
                  IF ThresholdGiven(th.hazard)
                  THEN Count(_count_hazard_entries(s, th.hazard.v))
                  ELSE None,
              trend |-> _detect_trend(s)]

---------------------------------------------------------------------------
(* history_analyzer.py *)

BAD_LEVELS == {"Unhealthy", "Hazardous"}
MODERATE_OR_WORSE_LEVELS == {"Moderate", "Unhealthy", "Hazardous"}

\* A parsed timestamp, counted in hours, and NaT, what pd.to_datetime with
\* errors="coerce" leaves for a cell it cannot parse.
Ts(h) == [k |-> "ts", v |-> h]
NaT == [k |-> "NaT", v |-> 0]

\* pd.isna / Series.isna
IsNa(x) == x.k \in {"nan", "None", "NaT"}

\* str(ts) of a parsed timestamp.
TsStr(ts) == ToString(ts.v)

\* ts.date(), as a day number.
DateOf(ts) == ts.v \div 24

\* df[df["city"] == city]
CityFilter(tbl, city) == SelectSeq(tbl, LAMBDA r : r.city = city)

\* A plausible slip: a row dropped only when it has neither a timestamp nor
\* a reading.
MaskMissingAll(r) == IsNa(r.timestamp) /\ (IsNa(r.aqi) /\ IsNa(r.pm2_5))

\* mask_missing, for one row.
MaskMissing(r) == IsNa(r.timestamp) \/ (IsNa(r.aqi) /\ IsNa(r.pm2_5))

_apply_interpret_row(row) ==
    interpret(row.aqi, row.pm2_5,
              IF ~IsNa(row.timestamp) THEN TsStr(row.timestamp) ELSE "",
              row.city)

\* The driver label of one row.
DriverOf(row) ==
    LET a_level == _aqi_to_level(row.aqi).val
        p_level == _pm25_to_level(row.pm2_5)
    IN  IF a_level > p_level THEN "AQI"
        ELSE IF p_level > a_level THEN "PM2.5"
        ELSE "Both"

\* interpretations once the loops have run: each result of interpret with the
\* keys "driver" and "__idx" the aggregator writes into it.
Interpretations(df) ==
    [i \in 1..Len(df) |->
        _apply_interpret_row(df[i]).val
            @@ [driver |-> DriverOf(df[i]), idx |-> i - 1]]

FracGT(a, b) == a.n * b.d > b.n * a.d
FracEQ(a, b) == a.n * b.d = b.n * a.d

\* cnt / total * 100
Pct(cnt, total) == Frac(cnt * 100, total)

\* A plausible slip: pct left as a fraction of 1, not multiplied by 100.
DistributionAsFractions(interps) ==
    LET n == Len(interps)
        present == {interps[i].risk_level : i \in 1..n}
    IN  [lvl \in present |->
            LET cnt == Cardinality({i \in 1..n : interps[i].risk_level = lvl})
            IN  [count |-> cnt, pct |-> Frac(cnt, n)]]

\* distribution: one entry per risk level that occurs.
Distribution(interps) ==
    LET n == Len(interps)
        present == {interps[i].risk_level : i \in 1..n}
    IN  [lvl \in present |->
            LET cnt == Cardinality({i \in 1..n : interps[i].risk_level = lvl})
            IN  [count |-> cnt, pct |-> Pct(cnt, n)]]

ShareOf(interps, levels) ==
    LET n == Len(interps)
    IN  IF n > 0
        THEN Pct(Cardinality({i \in 1..n : interps[i].risk_level \in levels}), n)
        ELSE Frac(0, 1)

DRIVER_KEYS == <<"AQI", "PM2.5", "Both">>

DriversDistribution(interps) ==
    LET n == Len(interps)
    IN  [key \in {DRIVER_KEYS[j] : j \in 1..3} |->
            LET c == Cardinality({i \in 1..n : interps[i].driver = key})
            IN  [count |-> c, pct |-> IF n > 0 THEN Pct(c, n) ELSE Frac(0, 1)]]

MinTs(df) == CHOOSE t \in {df[i].timestamp.v : i \in 1..Len(df)} :
                 \A i \in 1..Len(df) : t <= df[i].timestamp.v
MaxTs(df) == CHOOSE t \in {df[i].timestamp.v : i \in 1..Len(df)} :
                 \A i \in 1..Len(df) : t >= df[i].timestamp.v

\* A plausible slip: the first row in file order with the largest score,
\* whatever its timestamp.
WorstInFileOrder(df, interps, S) ==
    CHOOSE i \in S :
        \A j \in S :
            \/ interps[i].score > interps[j].score
            \/ interps[i].score = interps[j].score /\ i <= j

\* Among the rows in S: the largest score, then the smallest timestamp, then
\* the first in row order.
WorstIn(df, interps, S) ==
    CHOOSE i \in S :
        \A j \in S :
            \/ interps[i].score > interps[j].score
            \/ /\ interps[i].score = interps[j].score
               /\ \/ df[i].timestamp.v < df[j].timestamp.v
                  \/ df[i].timestamp.v = df[j].timestamp.v /\ i <= j

NoEntry == [k |-> "None"]

\* worst_entry
WorstEntry(df, interps) ==
    IF Len(interps) = 0 THEN NoEntry
    ELSE LET w == WorstIn(df, interps, 1..Len(df))
         IN  [k |-> "dict",
              timestamp |-> df[w].timestamp,
              risk_level |-> interps[w].risk_level,
              reasons |-> interps[w].reasons,
              determined_by |-> DriverOf(df[w])]

\* One entry of day_stats.
DayStat(df, interps, d) ==
    LET g == {i \in 1..Len(df) : DateOf(df[i].timestamp) = d}
        n == Cardinality(g)
    IN  [date |-> d,
         moderate_or_worse_share |->
             Pct(Cardinality({i \in g : interps[i].risk_level
                                         \in MODERATE_OR_WORSE_LEVELS}), n),
         unhealthy_or_worse_share |->
             Pct(Cardinality({i \in g : interps[i].risk_level \in BAD_LEVELS}), n),
         n |-> n,
         representative_worst |-> interps[WorstIn(df, interps, g)]]

Dates(df) == {DateOf(df[i].timestamp) : i \in 1..Len(df)}

\* A plausible slip: the days ordered by the share alone, the day's count
\* left out of the key.
SortedDaysByShareOnly(stats, share) ==
    LET before(a, b) ==
            \/ FracGT(a[share], b[share])
            \/ FracEQ(a[share], b[share]) /\ a.date < b.date
        rank(a) == 1 + Cardinality({b \in stats : before(b, a)})
    IN  [r \in 1..Cardinality(stats) |-> CHOOSE a \in stats : rank(a) = r]

\* sorted(day_stats, key=(-x[share], -x["n"])): the sort is stable and
\* day_stats is in date order, so equal keys stay in date order.
SortedDays(stats, share) ==
    LET before(a, b) ==
            \/ FracGT(a[share], b[share])
            \/ /\ FracEQ(a[share], b[share])
               /\ \/ a.n > b.n
                  \/ a.n = b.n /\ a.date < b.date
        rank(a) == 1 + Cardinality({b \in stats : before(b, a)})
    IN  [r \in 1..Cardinality(stats) |-> CHOOSE a \in stats : rank(a) = r]

TOP_DAYS == 3

TopDays(sorted) ==
    SubSeq(sorted, 1, IF Len(sorted) < TOP_DAYS THEN Len(sorted) ELSE TOP_DAYS)

\* max(drivers_distribution.items(), key=count): the first of the keys, in
\* their order, with the largest count.
TopDriver(dd) ==
    DRIVER_KEYS[CHOOSE j \in 1..3 :
        /\ \A i \in 1..3 : dd[DRIVER_KEYS[j]].count >= dd[DRIVER_KEYS[i]].count
        /\ \A i \in 1..(j - 1) : dd[DRIVER_KEYS[i]].count < dd[DRIVER_KEYS[j]].count]

\* A plausible slip: no fallback sentence, the summary left as the empty
\* string it starts as when nothing was kept.
SummaryTextNoFallback(city, df, interps) ==
    IF Len(df) = 0
    THEN [kind |-> "empty", city |-> ""]
    ELSE LET dd == DriversDistribution(interps)
             w == WorstEntry(df, interps)
         IN  [kind |-> "over_period",
              days_span |-> (MaxTs(df) - MinTs(df)) \div 24 + 1,
              moderate_pct |-> ShareOf(interps, MODERATE_OR_WORSE_LEVELS),
              unhealthy_pct |-> ShareOf(interps, BAD_LEVELS),
              worst_timestamp |-> w.timestamp,
              worst_level |-> w.risk_level,
              top_driver |-> TopDriver(dd),
              top_pct |-> dd[TopDriver(dd)].pct]

\* The summary sentence, by its parts.
SummaryText(city, df, interps) ==
    IF Len(df) = 0
    THEN [kind |-> "no_valid_measurements", city |-> city]
    ELSE LET dd == DriversDistribution(interps)
             w == WorstEntry(df, interps)
         IN  [kind |-> "over_period",
              days_span |-> (MaxTs(df) - MinTs(df)) \div 24 + 1,
              moderate_pct |-> ShareOf(interps, MODERATE_OR_WORSE_LEVELS),
              unhealthy_pct |-> ShareOf(interps, BAD_LEVELS),
              worst_timestamp |-> w.timestamp,
              worst_level |-> w.risk_level,
              top_driver |-> TopDriver(dd),
              top_pct |-> dd[TopDriver(dd)].pct]

\* The dict analyze_city_from_csv returns for the kept rows df.
CitySummary(city, df, dropped) ==
    LET interps == Interpretations(df)
        total == Len(df)
        stats == {DayStat(df, interps, d) : d \in Dates(df)}
    IN  [city |-> city,
         total_measurements |-> total,
         dropped_rows |-> dropped,
         period_start |-> IF total > 0 THEN Ts(MinTs(df)) ELSE None,
         period_end |-> IF total > 0 THEN Ts(MaxTs(df)) ELSE None,
         distribution |-> Distribution(interps),
         moderate_or_worse_share_pct |-> ShareOf(interps, MODERATE_OR_WORSE_LEVELS),
         unhealthy_or_worse_share_pct |-> ShareOf(interps, BAD_LEVELS),
         drivers_distribution |-> DriversDistribution(interps),
         worst_moment |-> WorstEntry(df, interps),
         top_bad_windows_moderate_or_worse |->
             TopDays(SortedDays(stats, "moderate_or_worse_share")),
         top_bad_windows_unhealthy_or_worse |->
             TopDays(SortedDays(stats, "unhealthy_or_worse_share")),
         top_bad_windows |-> TopDays(SortedDays(stats, "moderate_or_worse_share")),
         summary |-> SummaryText(city, df, interps)]

\* A plausible slip: only the rows without a timestamp counted as dropped.
DroppedCountNoTimestamp(tbl, city) ==
    Len(SelectSeq(CityFilter(tbl, city), LAMBDA r : IsNa(r.timestamp)))

\* The rows analyze_city_from_csv keeps, and the count of those it drops.
KeptRows(tbl, city) == SelectSeq(CityFilter(tbl, city), LAMBDA r : ~MaskMissing(r))
DroppedCount(tbl, city) ==
    Len(SelectSeq(CityFilter(tbl, city), LAMBDA r : MaskMissing(r)))

\* The call raises when interpret raises for a kept row.
analyze_city_from_csv(tbl, city) ==
    LET df == KeptRows(tbl, city)
    IN  IF \E i \in 1..Len(df) : _apply_interpret_row(df[i]).exc
        THEN Raise
        ELSE Return(CitySummary(city, df, DroppedCount(tbl, city)))

---------------------------------------------------------------------------
(* city_report_builder.py *)

\* _safe_get: None for a column the row lacks and for a cell that is missing.
_safe_get(row, col) ==
    IF col \notin DOMAIN row THEN None
    ELSE IF IsNa(row[col]) THEN None
    ELSE row[col]

\* int(x) of a finite float in hundredths: truncation toward zero.
PyInt(h) == IF h >= 0 THEN h \div 100 ELSE 0 - ((0 - h) \div 100)

\* The positions iloc[-1] can denote once df_city.sort_values("timestamp")
\* has run: sort_values puts the rows without a timestamp last
\* (na_position="last"), in file order; among rows with the same timestamp
\* the default sort is not stable, so any of them may come last.
LastAfterSort(df) ==
    LET missing == {i \in 1..Len(df) : IsNa(df[i].timestamp)}
        present == (1..Len(df)) \ missing
    IN  IF missing # {}
        THEN {CHOOSE i \in missing : \A j \in missing : j <= i}
        ELSE {i \in present :
                 \A j \in present : df[j].timestamp.v <= df[i].timestamp.v}

\* The positions the row called last can have, for a non-empty df_city.
LastCandidates(df) ==
    IF \E i \in 1..Len(df) : ~IsNa(df[i].timestamp)
    THEN LastAfterSort(df)
    ELSE {Len(df)}

\* The value of a key of current: int(v) or float(v), None when v is None.
IntOrNone(v) == IF v.k = "None" THEN None ELSE Count(PyInt(v.v))
FloatOrNone(v) == v

\* decision: the result of interpret, None when it raises.
Decision(last, city) ==
    LET res == interpret(_safe_get(last, "aqi"), _safe_get(last, "pm2_5"),
                         IF ~IsNa(last.timestamp) THEN TsStr(last.timestamp) ELSE "",
                         city)
    IN  IF res.exc THEN [k |-> "None"] ELSE [k |-> "dict", v |-> res.val]

\* current, for the row last.
CurrentOf(last, city) ==
    [timestamp |-> IF ~IsNa(last.timestamp) THEN last.timestamp ELSE None,
     aqi_category |-> IntOrNone(_safe_get(last, "aqi")),
     pm2_5 |-> FloatOrNone(_safe_get(last, "pm2_5")),
     pm10 |-> FloatOrNone(_safe_get(last, "pm10")),
     o3 |-> FloatOrNone(_safe_get(last, "o3")),
     no2 |-> FloatOrNone(_safe_get(last, "no2")),
     so2 |-> FloatOrNone(_safe_get(last, "so2")),
     co |-> FloatOrNone(_safe_get(last, "co")),
     decision |-> Decision(last, city)]

\* current when the city has no row.
CurrentEmpty ==
    [timestamp |-> None, aqi_category |-> None, pm2_5 |-> None, pm10 |-> None,
     o3 |-> None, no2 |-> None, so2 |-> None, co |-> None,
     decision |-> [k |-> "None"]]

\* mapping: the keys of current and the handbook entries they stand for.
HandbookMapping ==
    [aqi_category |-> "AQI", pm2_5 |-> "PM2.5", pm10 |-> "PM10", o3 |-> "O3",
     no2 |-> "NO2", so2 |-> "SO2", co |-> "CO"]

\* indicators, as the set of handbook entries included; hb_inds is the set
\* of entries the handbook file has, empty when the file does not exist.
Indicators(current, hb_inds, mode) ==
    IF mode = "none" THEN {}
    ELSE IF mode = "full" THEN hb_inds
    ELSE ({"AQI", "PM2.5"} \cap hb_inds)
         \cup {HandbookMapping[cur_k] : cur_k \in
                   {k \in DOMAIN HandbookMapping :
                       /\ HandbookMapping[k] \notin {"AQI", "PM2.5"}
                       /\ current[k].k # "None"
                       /\ HandbookMapping[k] \in hb_inds}}

\* The dict build_city_report returns when the row at position pick of the
\* city's rows is the one called last; the call raises when the history
\* call raises.
build_city_report(tbl, city, hb_inds, mode, pick) ==
    LET df == CityFilter(tbl, city)
        current == IF Len(df) = 0 THEN CurrentEmpty ELSE CurrentOf(df[pick], city)
        history == analyze_city_from_csv(tbl, city)
    IN  IF history.exc THEN Raise
        ELSE Return([city |-> city,
                     current |-> current,
                     history |-> history.val,
                     indicators |-> Indicators(current, hb_inds, mode),
                     handbook_mode |-> mode])

---------------------------------------------------------------------------
(* The classifier called on its own *)

\* Finite readings of the primary index, in hundredths: the categories and
\* the halves between them, and the breakpoints of the numeric index.
AqiNumbers ==
    {-100, 0, 50, 100, 150, 200, 250, 300, 350, 400, 450, 460, 500, 501, 600,
     5000, 5001, 10000, 10001, 12000, 20000, 20001, 26000}

\* Finite fine-particulate readings, in hundredths.
Pm25Numbers == {-100, 0, 800, 1200, 1201, 2000, 3540, 3541, 4000, 5540, 5541, 9000}

Specials == {None, BadStr, NaN, PosInf, NegInf}

AqiInputs == {Num(n) : n \in AqiNumbers} \cup Specials
Pm25Inputs == {Num(n) : n \in Pm25Numbers} \cup Specials
TimestampInputs == {"", "2024-01-01 00:00:00"}
CityInputs == {"", "Testville"}

NoOut == Raise
NoThresholds == [safe |-> None, hazard |-> None]
NoSummary == [n_measurements |-> 0, min |-> None, max |-> None, mean |-> None,
              median |-> None, percent_above_safe |-> None,
              hazard_entries |-> None, trend |-> TREND_NONE]

\* The arguments of one call are drawn here; Interpret applies the function.
InitClassify ==
    /\ pc = "idle"
    /\ c_aqi \in AqiInputs
    /\ c_pm25 \in Pm25Inputs
    /\ c_ts \in TimestampInputs
    /\ c_city \in CityInputs
    /\ c_out = NoOut
    /\ series = <<>>
    /\ thresholds = NoThresholds
    /\ p_out = NoSummary
    /\ hz_out = 0
    /\ t_out = TREND_NONE
    /\ table = <<>>
    /\ h_city = ""
    /\ df_city = <<>>
    /\ dropped_rows = 0
    /\ h_out = NoOut
    /\ r_last = <<>>
    /\ r_out = NoOut

Interpret ==
    /\ pc = "idle"
    /\ pc' = "interpret"
    /\ c_out' = interpret(c_aqi, c_pm25, c_ts, c_city)
    /\ UNCHANGED <<c_aqi, c_pm25, c_ts, c_city>>
    /\ UNCHANGED seriesVars
    /\ UNCHANGED cityVars
    /\ UNCHANGED reportVars

NextClassify == Interpret

SpecClassify == InitClassify /\ [][NextClassify]_vars

---------------------------------------------------------------------------
(* The pollutant analyzer called on a series *)

MaxSeriesLen == 7

\* What a series entry may be: a reading below, at or above the thresholds,
\* a missing reading, a cell that is no number.
HAZARD == 50000
SAFE == 0
SeriesEntries == {Num(SAFE), Num(HAZARD), Num(HAZARD + 10000), NaN, BadStr}

\* The thresholds argument: safe 0 and hazard 500, or the NaN pair of a
\* pollutant without defaults.
ThresholdInputs == {[safe |-> Num(SAFE), hazard |-> Num(HAZARD)],
                    [safe |-> NaN, hazard |-> NaN]}

InitSeries ==
    /\ pc = "build"
    /\ series = <<>>
    /\ thresholds = NoThresholds
    /\ p_out = NoSummary
    /\ hz_out = 0
    /\ t_out = TREND_NONE
    /\ table = <<>>
    /\ h_city = ""
    /\ df_city = <<>>
    /\ dropped_rows = 0
    /\ h_out = NoOut
    /\ r_last = <<>>
    /\ r_out = NoOut
    /\ c_aqi = None
    /\ c_pm25 = None
    /\ c_ts = ""
    /\ c_city = ""
    /\ c_out = NoOut

\* The caller's series grows by one entry.
AppendEntry ==
    /\ pc = "build"
    /\ Len(series) < MaxSeriesLen
    /\ \E e \in SeriesEntries : series' = Append(series, e)
    /\ UNCHANGED <<pc, thresholds, p_out, hz_out, t_out>>
    /\ UNCHANGED classifyVars
    /\ UNCHANGED cityVars
    /\ UNCHANGED reportVars

AnalyzePollutant ==
    /\ pc = "build"
    /\ \E th \in ThresholdInputs :
          /\ thresholds' = th
          /\ p_out' = analyze_pollutant(series, th)
    /\ pc' = "analyze_pollutant"
    /\ UNCHANGED <<series, hz_out, t_out>>
    /\ UNCHANGED classifyVars
    /\ UNCHANGED cityVars
    /\ UNCHANGED reportVars

\* _count_hazard_entries called on the series as pandas holds it (numbers and
\* NaN) with the hazard threshold HAZARD.
CountHazardEntries ==
    /\ pc = "build"
    /\ thresholds' = [safe |-> None, hazard |-> Num(HAZARD)]
    /\ hz_out' = _count_hazard_entries(ToNumeric(series), HAZARD)
    /\ pc' = "count_hazard_entries"
    /\ UNCHANGED <<series, p_out, t_out>>
    /\ UNCHANGED classifyVars
    /\ UNCHANGED cityVars
    /\ UNCHANGED reportVars

NextSeries == AppendEntry \/ AnalyzePollutant \/ CountHazardEntries

SpecSeries == InitSeries /\ [][NextSeries]_vars

---------------------------------------------------------------------------
(* The trend detector called on a series *)

MaxTrendLen == 10

\* The series the detector is given.  Readings come in pairs of values two
\* of which are 5% apart one way or the other, with missing entries anywhere
\* (AppendReading); or they form a ramp, each reading one unit above or below
\* the one before it (ExtendRamp).
TrendPalettes == {{0, 100}, {1900, 2000}, {2000, 2100}}
TrendEntries == {NaN} \cup {Num(n) : n \in UNION TrendPalettes}
RampStarts == {0, 6000, 13600, 14500, 20000}
RampSteps == {100, -100}

NumbersIn(s) == {s[i].v : i \in {j \in 1..Len(s) : IsNum(s[j])}}

IsRamp(s) ==
    /\ \A i \in 1..Len(s) : IsNum(s[i])
    /\ Len(s) >= 1 => s[1].v \in RampStarts
    /\ Len(s) >= 2 => s[2].v - s[1].v \in RampSteps
    /\ \A i \in 2..Len(s) : s[i].v - s[i - 1].v = s[2].v - s[1].v

InitTrend ==
    /\ pc = "build"
    /\ series = <<>>
    /\ thresholds = NoThresholds
    /\ p_out = NoSummary
    /\ hz_out = 0
    /\ t_out = TREND_NONE
    /\ table = <<>>
    /\ h_city = ""
    /\ df_city = <<>>
    /\ dropped_rows = 0
    /\ h_out = NoOut
    /\ r_last = <<>>
    /\ r_out = NoOut
    /\ c_aqi = None
    /\ c_pm25 = None
    /\ c_ts = ""
    /\ c_city = ""
    /\ c_out = NoOut

AppendReading ==
    /\ pc = "build"
    /\ Len(series) < MaxTrendLen
    /\ \E e \in TrendEntries :
          /\ \E pal \in TrendPalettes : NumbersIn(Append(series, e)) \subseteq pal
          /\ series' = Append(series, e)
    /\ UNCHANGED <<pc, thresholds, p_out, hz_out, t_out>>
    /\ UNCHANGED classifyVars
    /\ UNCHANGED cityVars
    /\ UNCHANGED reportVars

ExtendRamp ==
    /\ pc = "build"
    /\ Len(series) < MaxTrendLen
    /\ \E n \in RampStarts \cup {series[Len(series)].v + d : d \in
                                   IF Len(series) > 0 /\ IsNum(series[Len(series)])
                                   THEN RampSteps ELSE {}} :
          /\ IsRamp(Append(series, Num(n)))
          /\ series' = Append(series, Num(n))
    /\ UNCHANGED <<pc, thresholds, p_out, hz_out, t_out>>
    /\ UNCHANGED classifyVars
    /\ UNCHANGED cityVars
    /\ UNCHANGED reportVars

DetectTrend ==
    /\ pc = "build"
    /\ t_out' = _detect_trend(series)
    /\ pc' = "detect_trend"
    /\ UNCHANGED <<series, thresholds, p_out, hz_out>>
    /\ UNCHANGED classifyVars
    /\ UNCHANGED cityVars
    /\ UNCHANGED reportVars

NextTrend == AppendReading \/ ExtendRamp \/ DetectTrend

SpecTrend == InitTrend /\ [][NextTrend]_vars

---------------------------------------------------------------------------
(* The aggregator called on a table *)

MaxRows == 2

Cities == {"Almaty", "Astana"}

\* The cells pd.read_csv and pd.to_datetime produce: a number or NaN for a
\* reading, a timestamp or NaT.
TimestampCells == {NaT, Ts(1), Ts(2), Ts(25)}
AqiCells == {NaN, Num(100), Num(300)}
Pm25Cells == {NaN, Num(500), Num(2000)}

TableRows ==
    [timestamp : TimestampCells, city : {"Almaty"}, aqi : AqiCells, pm2_5 : Pm25Cells]
    \cup {[timestamp |-> Ts(1), city |-> "Astana", aqi |-> Num(300), pm2_5 |-> Num(500)]}

InitCity ==
    /\ pc = "load"
    /\ table = <<>>
    /\ h_city = ""
    /\ df_city = <<>>
    /\ dropped_rows = 0
    /\ h_out = NoOut
    /\ r_last = <<>>
    /\ r_out = NoOut
    /\ series = <<>>
    /\ thresholds = NoThresholds
    /\ p_out = NoSummary
    /\ hz_out = 0
    /\ t_out = TREND_NONE
    /\ c_aqi = None
    /\ c_pm25 = None
    /\ c_ts = ""
    /\ c_city = ""
    /\ c_out = NoOut

\* The input CSV grows by one row.
AddRow ==
    /\ pc = "load"
    /\ Len(table) < MaxRows
    /\ \E r \in TableRows : table' = Append(table, r)
    /\ UNCHANGED <<pc, h_city, df_city, dropped_rows, h_out>>
    /\ UNCHANGED classifyVars
    /\ UNCHANGED seriesVars
    /\ UNCHANGED reportVars

AnalyzeCity ==
    /\ pc = "load"
    /\ \E city \in Cities :
          /\ h_city' = city
          /\ df_city' = KeptRows(table, city)
          /\ dropped_rows' = DroppedCount(table, city)
          /\ h_out' = analyze_city_from_csv(table, city)
    /\ pc' = "analyze_city"
    /\ UNCHANGED table
    /\ UNCHANGED classifyVars
    /\ UNCHANGED seriesVars
    /\ UNCHANGED reportVars

NextCity == AddRow \/ AnalyzeCity

SpecCity == InitCity /\ [][NextCity]_vars

---------------------------------------------------------------------------
(* The aggregator called on a table that spans several days *)

MaxDayRows == 4

\* Hours of four calendar days, the first day with two hours.
DayHours == {1, 2, 25, 49, 73}

\* Rows of the requested city with both readings: Unhealthy at every hour,
\* Normal at the hours of the first two days, Moderate at the first hour.
DayRows ==
    {[timestamp |-> Ts(h), city |-> "Almaty", aqi |-> Num(300), pm2_5 |-> Num(500)] :
        h \in DayHours}
    \cup {[timestamp |-> Ts(h), city |-> "Almaty", aqi |-> Num(100), pm2_5 |-> Num(500)] :
        h \in DayHours \ {49, 73}}
    \cup {[timestamp |-> Ts(1), city |-> "Almaty", aqi |-> Num(100), pm2_5 |-> Num(2000)]}

\* The input CSV grows by one row.
AddDayRow ==
    /\ pc = "load"
    /\ Len(table) < MaxDayRows
    /\ \E r \in DayRows : table' = Append(table, r)
    /\ UNCHANGED <<pc, h_city, df_city, dropped_rows, h_out>>
    /\ UNCHANGED classifyVars
    /\ UNCHANGED seriesVars
    /\ UNCHANGED reportVars

NextDays == AddDayRow \/ AnalyzeCity

SpecDays == InitCity /\ [][NextDays]_vars

---------------------------------------------------------------------------
(* The report builder called on a table *)

\* The handbook file: absent, or holding the seven indicators.
HandbookEntries == {"AQI", "PM2.5", "PM10", "O3", "NO2", "SO2", "CO"}
HandbookFiles == {{}, HandbookEntries}
HandbookModes == {"minimal", "full", "none"}

BuildCityReport ==
    /\ pc = "load"
    /\ \E city \in Cities, hb_inds \in HandbookFiles, mode \in HandbookModes :
          LET df == CityFilter(table, city)
          IN  /\ h_city' = city
              /\ df_city' = df
              /\ h_out' = analyze_city_from_csv(table, city)
              /\ IF Len(df) = 0
                 THEN /\ r_last' = <<>>
                      /\ r_out' = build_city_report(table, city, hb_inds, mode, 0)
                 ELSE \E pick \in LastCandidates(df) :
                      /\ r_last' = <<df[pick]>>
                      /\ r_out' = build_city_report(table, city, hb_inds, mode, pick)
    /\ pc' = "build_city_report"
    /\ UNCHANGED <<table, dropped_rows>>
    /\ UNCHANGED classifyVars
    /\ UNCHANGED seriesVars

NextReport == AddRow \/ BuildCityReport

SpecReport == InitCity /\ [][NextReport]_vars

---------------------------------------------------------------------------
(* Claims about the classifier *)

Returned == pc = "interpret" /\ ~c_out.exc

\* The sub-levels of the two arguments of the call, as interpret computes them.
AqiSub == _aqi_to_level(c_aqi).val
Pm25Sub == _pm25_to_level(c_pm25)

\* C1: whenever interpret returns, score is the larger of the two sub-levels
\* and risk_level is the label of score; and with the other argument kept,
\* replacing a non-dominant argument by any value whose sub-level does not
\* exceed the other argument's sub-level gives the same score.
C1_ScoreIsMaxOfSubLevels ==
    Returned =>
        /\ c_out.val.score = Max(AqiSub, Pm25Sub)
        /\ c_out.val.risk_level = LEVEL_NAMES[c_out.val.score + 1]
        /\ \A a2 \in AqiInputs :
             (/\ AqiSub <= Pm25Sub
              /\ ~interpret(a2, c_pm25, c_ts, c_city).exc
              /\ _aqi_to_level(a2).val <= Pm25Sub)
             => interpret(a2, c_pm25, c_ts, c_city).val.score = c_out.val.score
        /\ \A p2 \in Pm25Inputs :
             (Pm25Sub <= AqiSub /\ _pm25_to_level(p2) <= AqiSub)
             => interpret(c_aqi, p2, c_ts, c_city).val.score = c_out.val.score

\* A call where the two sub-levels differ and the worse one, PM2.5, decides.
C1_Witness ==
    /\ Returned
    /\ c_aqi = Num(200)
    /\ c_pm25 = Num(9000)
    /\ c_out.val.score = 3
    /\ c_out.val.risk_level = "Hazardous"

\* The sub-level label the AQI reason of the returned result carries.
AqiLabel == c_out.val.reasons[1].label
Pm25Label == c_out.val.reasons[2].label

\* C2: a finite primary-index reading v <= 5 is read as a category, with
\* 1 -> Normal, 2 -> Moderate, 3 -> Unhealthy, 4 -> Unhealthy, 5 -> Hazardous;
\* v > 5 is read as a numeric index, with <= 50 Normal, <= 100 Moderate,
\* <= 200 Unhealthy and > 200 Hazardous.
C2_AqiScale ==
    (Returned /\ c_aqi.k = "num") =>
        LET v == c_aqi.v
            says == c_out.val.reasons[1].says
        IN  /\ (v <= 500) = (says = "category")
            /\ (v > 500) = (says = "index")
            /\ v = 100 => AqiLabel = "Normal"
            /\ v = 200 => AqiLabel = "Moderate"
            /\ v = 300 => AqiLabel = "Unhealthy"
            /\ v = 400 => AqiLabel = "Unhealthy"
            /\ v = 500 => AqiLabel = "Hazardous"
            /\ (v > 500 /\ v <= 5000) => AqiLabel = "Normal"
            /\ (v > 5000 /\ v <= 10000) => AqiLabel = "Moderate"
            /\ (v > 10000 /\ v <= 20000) => AqiLabel = "Unhealthy"
            /\ v > 20000 => AqiLabel = "Hazardous"

\* Category 4 classified: Unhealthy.
C2_Witness ==
    /\ Returned
    /\ c_aqi = Num(400)
    /\ c_pm25 = None
    /\ AqiLabel = "Unhealthy"
    /\ c_out.val.risk_level = "Unhealthy"

\* C3: a finite fine-particulate reading p is Normal when p <= 12.0, Moderate
\* when 12.0 < p <= 35.4, Unhealthy when 35.4 < p <= 55.4 and Hazardous when
\* p > 55.4.
C3_Pm25Breakpoints ==
    (Returned /\ c_pm25.k = "num") =>
        LET p == c_pm25.v
        IN  /\ p <= 1200 => Pm25Label = "Normal"
            /\ (p > 1200 /\ p <= 3540) => Pm25Label = "Moderate"
            /\ (p > 3540 /\ p <= 5540) => Pm25Label = "Unhealthy"
            /\ p > 5540 => Pm25Label = "Hazardous"

\* 55.4 classified: Unhealthy.
C3_Witness ==
    /\ Returned
    /\ c_pm25 = Num(5540)
    /\ c_aqi = None
    /\ Pm25Label = "Unhealthy"
    /\ c_out.val.score = 2

\* A usable number: a finite float.
Usable(x) == x.k = "num"

\* C4 as claimed: interpret never raises, and an argument that is not a
\* usable number (None, unparseable, NaN, infinite) contributes sub-level 0.
C4_NeverRaisesDegradesToNormal ==
    pc = "interpret" =>
        /\ ~c_out.exc
        /\ c_out.val.score = Max(IF Usable(c_aqi) THEN AqiSub ELSE 0,
                                 IF Usable(c_pm25) THEN Pm25Sub ELSE 0)

\* C6 as claimed: the result has two reasons, AQI then PM2.5, and each says
\* "missing" exactly when its reading is None and "invalid" exactly when its
\* reading is present and float() cannot parse it.
C6_MissingAndInvalidReasons ==
    Returned =>
        LET rs == c_out.val.reasons
        IN  /\ Len(rs) = 2
            /\ rs[1].about = "AQI"
            /\ rs[2].about = "PM2.5"
            /\ (rs[1].says = "missing") = (c_aqi.k = "None")
            /\ (rs[2].says = "missing") = (c_pm25.k = "None")
            /\ (rs[1].says = "invalid") = (c_aqi.k = "str")
            /\ (rs[2].says = "invalid") = (c_pm25.k = "str")

\* The recommendations of the result of the call.
Recs == c_out.val.recommendations

\* C12: whenever interpret returns, the recommendations list has between 3
\* and 6 items inclusive and no string occurs in it twice.
C12_ThreeToSixDistinctRecommendations ==
    Returned =>
        /\ Len(Recs) >= 3
        /\ Len(Recs) <= MAX_RECS
        /\ \A i, j \in 1..Len(Recs) : Recs[i] = Recs[j] => i = j

\* Both sub-levels Unhealthy-or-worse under a Hazardous overall level: the
\* list is full, 3 base items and 3 additions.
C12_Witness ==
    /\ Returned
    /\ AqiSub >= 2
    /\ Pm25Sub = 3
    /\ Len(Recs) = MAX_RECS

\* The 3 base recommendations of the overall level.
BaseRecs == _base_recommendations(c_out.val.score)

\* C13 as claimed: the list is the 3 base items, then a mask item and the
\* busy-roads item whenever the particulate sub-level is Unhealthy-or-worse,
\* then the action-plan item whenever the primary-index sub-level is
\* Unhealthy-or-worse.
C13_RefinementsAppendedBySubLevel ==
    Returned =>
        Recs = BaseRecs
               \o (IF Pm25Sub >= 2 THEN <<REC_MASK, REC_ROADS>> ELSE <<>>)
               \o (IF AqiSub >= 2 THEN <<REC_PLAN>> ELSE <<>>)

\* C13 amended: the list is the 3 base items of the overall level; then,
\* when the particulate sub-level is Unhealthy-or-worse, the mask item
\* unless the base items already hold the base mask item (overall level
\* Unhealthy), and the busy-roads item; then, when the primary-index
\* sub-level is Unhealthy-or-worse, the action-plan item unless the base
\* items already hold the base action-plan item (overall level Unhealthy).
\* With neither sub-level Unhealthy-or-worse the list is the 3 base items.
C13_RefinementsUnlessInBase ==
    Returned =>
        /\ Recs = BaseRecs
                  \o (IF Pm25Sub >= 2 /\ c_out.val.score = 3
                      THEN <<REC_MASK>> ELSE <<>>)
                  \o (IF Pm25Sub >= 2 THEN <<REC_ROADS>> ELSE <<>>)
                  \o (IF AqiSub >= 2 /\ c_out.val.score = 3
                      THEN <<REC_PLAN>> ELSE <<>>)
        /\ (Pm25Sub < 2 /\ AqiSub < 2) => Recs = BaseRecs
        /\ c_out.val.score = 2 => SeqHas(BaseRecs, REC_U3) /\ SeqHas(BaseRecs, REC_U2)

\* Both sub-levels Unhealthy: only the busy-roads item follows the base items.
C13_Witness ==
    /\ Returned
    /\ Pm25Sub = 2
    /\ AqiSub = 2
    /\ Recs = <<REC_U1, REC_U2, REC_U3, REC_ROADS>>

---------------------------------------------------------------------------
(* Claims about the pollutant analyzer *)

\* No entry of the series is coercible to a number.
NothingCoercible == \A i \in 1..Len(series) : ~IsNum(series[i])

\* C8 as claimed: for a series without a coercible entry the summary has
\* n_measurements = 0, every statistic absent, and trend "no_change".
C8_EmptySummaryTrendNoChange ==
    (pc = "analyze_pollutant" /\ NothingCoercible) =>
        /\ p_out.n_measurements = 0
        /\ p_out.min.k = "None"
        /\ p_out.max.k = "None"
        /\ p_out.mean.k = "None"
        /\ p_out.median.k = "None"
        /\ p_out.percent_above_safe.k = "None"
        /\ p_out.hazard_entries.k = "None"
        /\ p_out.trend = "no_change"

\* Entry i of the series is a number above the hazard threshold.
AboveHazard(i) == IsNum(series[i]) /\ series[i].v > HAZARD

\* The transitions between consecutive entries from not-above to above.
RisingPairs == {i \in 2..Len(series) : ~AboveHazard(i - 1) /\ AboveHazard(i)}

\* The last entries of the maximal runs of consecutive entries above hazard.
RunEnds ==
    {i \in 1..Len(series) :
        AboveHazard(i) /\ (i = Len(series) \/ ~AboveHazard(i + 1))}

\* C10 as claimed: the count is the number of transitions between
\* consecutive entries whose previous entry is <= hazard (or missing) and
\* whose current entry is > hazard.
C10_TransitionsBetweenConsecutiveEntries ==
    pc = "count_hazard_entries" => hz_out = Cardinality(RisingPairs)

\* C10 amended: the count is the number of such transitions with the start of
\* the series counting as a previous entry below the threshold, which is the
\* number of maximal runs of consecutive entries above hazard.
C10_HazardEpisodes ==
    pc = "count_hazard_entries" =>
        /\ hz_out = Cardinality(RisingPairs)
                    + (IF Len(series) > 0 /\ AboveHazard(1) THEN 1 ELSE 0)
        /\ hz_out = Cardinality(RunEnds)

\* [0, 0, 600, 600, 600, 0, 600] with hazard = 500 counted: 2.
C10_Witness ==
    /\ pc = "count_hazard_entries"
    /\ series = <<Num(0), Num(0), Num(60000), Num(60000), Num(60000), Num(0),
                  Num(60000)>>
    /\ hz_out = 2

\* Entry i of the series is missing: empty, or no number.
MissingAt(i) == ~IsNum(series[i])

\* The entries above hazard, and those of them that open an episode: the
\* first entry of the series, or an entry whose predecessor is not above.
AboveEntries == {i \in 1..Len(series) : AboveHazard(i)}
EpisodeStarts == {i \in AboveEntries : i = 1 \/ ~AboveHazard(i - 1)}

\* C21: in _count_hazard_entries the start of the series counts as below
\* the threshold: a first entry above hazard is counted as one episode, a
\* missing entry between two entries above hazard splits them into two
\* episodes, and the result is at most the number of entries above hazard
\* and at most ceil(length / 2).
C21_StartBelowAndMissingSplits ==
    pc = "count_hazard_entries" =>
        /\ hz_out = Cardinality(EpisodeStarts)
        /\ (Len(series) > 0 /\ AboveHazard(1)) => (1 \in EpisodeStarts /\ hz_out >= 1)
        /\ \A i \in 2..(Len(series) - 1) :
              (AboveHazard(i - 1) /\ MissingAt(i) /\ AboveHazard(i + 1))
                  => /\ i + 1 \in EpisodeStarts
                     /\ hz_out >= 2
        /\ hz_out <= Cardinality(AboveEntries)
        /\ hz_out <= (Len(series) + 1) \div 2

\* [above, missing, above]: the first entry opens an episode and the
\* missing entry splits the two, 2 episodes.
C21_Witness ==
    /\ pc = "count_hazard_entries"
    /\ series = <<Num(HAZARD + 10000), NaN, Num(HAZARD + 10000)>>
    /\ hz_out = 2

\* The entries of the series that are numbers strictly greater than safe.
AboveSafe == {i \in 1..Len(series) : IsNum(series[i]) /\ series[i].v > SAFE}

\* The call analysed a series with a numeric entry under a given safe
\* threshold.
SafeShareReported ==
    /\ pc = "analyze_pollutant"
    /\ ~NothingCoercible
    /\ thresholds.safe.k = "num"

\* C11: for a series with at least one numeric entry and a defined safe
\* threshold, percent_above_safe is 100 * (numeric entries strictly greater
\* than safe) / (length of the original series): missing and non-numeric
\* entries count in the denominator and never in the numerator, and an entry
\* equal to safe is not in the numerator.
C11_PercentAboveSafeOverOriginalLength ==
    SafeShareReported =>
        /\ p_out.percent_above_safe.k = "frac"
        /\ FracEQ(p_out.percent_above_safe.v,
                  Frac(100 * Cardinality(AboveSafe), Len(series)))

\* [missing, "abc", safe, above]: one of four entries is above safe, 25%.
C11_Witness ==
    /\ SafeShareReported
    /\ series = <<NaN, BadStr, Num(SAFE), Num(HAZARD)>>
    /\ FracEQ(p_out.percent_above_safe.v, Frac(25, 1))

---------------------------------------------------------------------------
(* Claims about the trend detector *)

\* The positions of the non-missing entries of the series.
PresentAt == {i \in 1..Len(series) : IsNum(series[i])}
NPresent == Cardinality(PresentAt)

\* The number of non-missing entries up to position i.
RankOf(i) == Cardinality({j \in PresentAt : j <= i})

ThirdSize == NPresent \div 3

\* The sums of the first and of the last ThirdSize non-missing entries.
RECURSIVE SumAt(_)
SumAt(S) ==
    IF S = {} THEN 0
    ELSE LET i == CHOOSE j \in S : TRUE IN series[i].v + SumAt(S \ {i})

FirstSum == SumAt({i \in PresentAt : RankOf(i) <= ThirdSize})
LastSum == SumAt({i \in PresentAt : RankOf(i) > NPresent - ThirdSize})

\* rel >= 0.05 and rel <= -0.05, for rel = (mean(last) - mean(first)) /
\* |mean(first)| and rel = 0 when mean(first) = 0.
RelAtLeastFivePct == FirstSum # 0 /\ 100 * (LastSum - FirstSum) >= 5 * Abs(FirstSum)
RelAtMostMinusFivePct ==
    FirstSum # 0 /\ 100 * (LastSum - FirstSum) <= 0 - 5 * Abs(FirstSum)

NoMissing == \A i \in 1..Len(series) : IsNum(series[i])
StrictlyIncreasing ==
    NoMissing /\ \A i \in 2..Len(series) : series[i - 1].v < series[i].v
StrictlyDecreasing ==
    NoMissing /\ \A i \in 2..Len(series) : series[i - 1].v > series[i].v
Flat == NoMissing /\ \A i \in 2..Len(series) : series[i - 1].v = series[i].v

\* The rule of C9: "no_change" below 10 non-missing entries; from 10 on,
\* "worsening" iff rel >= 0.05, "improving" iff rel <= -0.05, "no_change"
\* otherwise; so an increasing series of positive readings whose last third
\* is at least 5% above its first third is "worsening" and a flat one is
\* "no_change".
TrendRule ==
    /\ NPresent < 10 => t_out = "no_change"
    /\ NPresent >= 10 =>
         /\ (t_out = "worsening") = RelAtLeastFivePct
         /\ (t_out = "improving") = RelAtMostMinusFivePct
         /\ t_out \in {"worsening", "improving", "no_change"}
    /\ (/\ NPresent >= 10
        /\ StrictlyIncreasing
        /\ FirstSum > 0
        /\ 100 * LastSum >= 105 * FirstSum) => t_out = "worsening"
    /\ Flat => t_out = "no_change"

\* C9 as claimed: the rule, and the mirror (the reversed series) of every
\* such increasing series is "improving": a decreasing series of length >= 10
\* whose first-third mean is at least 5% above its last-third mean.
C9_MirrorOfWorseningImproves ==
    pc = "detect_trend" =>
        /\ TrendRule
        /\ (/\ NPresent >= 10
            /\ StrictlyDecreasing
            /\ LastSum > 0
            /\ 100 * FirstSum >= 105 * LastSum) => t_out = "improving"

\* C9 amended: the rule, and a decreasing series of length >= 10 is
\* "improving" when its last-third mean is at least 5% below its first-third
\* mean.
C9_TrendRule ==
    pc = "detect_trend" =>
        /\ TrendRule
        /\ (/\ NPresent >= 10
            /\ StrictlyDecreasing
            /\ FirstSum > 0
            /\ 100 * LastSum <= 95 * FirstSum) => t_out = "improving"

\* An increasing series of 10 readings, the last third 5.1% above the first,
\* judged: worsening.
C9_Witness ==
    /\ pc = "detect_trend"
    /\ Len(series) = 10
    /\ StrictlyIncreasing
    /\ series[1] = Num(13600)
    /\ t_out = "worsening"

---------------------------------------------------------------------------
(* Claims about the aggregator *)

\* The positions in the table of the rows of the requested city.
CityRowsAt == {i \in 1..Len(table) : table[i].city = h_city}

HasTimestamp(r) == r.timestamp.k = "ts"
HasAqi(r) == r.aqi.k = "num"
HasPm25(r) == r.pm2_5.k = "num"

\* The kept row has a timestamp and exactly one of its two readings.
OneReadingAbsent(r) == HasTimestamp(r) /\ (HasAqi(r) # HasPm25(r))

\* C5 as claimed: with a kept row that has a timestamp and exactly one
\* reading, the aggregation does not raise, the row's risk level is the
\* sub-level of the reading it has (the absent one counting as Normal), and
\* its driver is not the absent pollutant.
C5_AbsentReadingCountsAsNormal ==
    (pc = "analyze_city" /\ \E i \in 1..Len(df_city) : OneReadingAbsent(df_city[i]))
    =>  /\ ~h_out.exc
        /\ \A i \in 1..Len(df_city) :
             OneReadingAbsent(df_city[i]) =>
                LET r == df_city[i]
                    res == Interpretations(df_city)[i]
                IN  /\ HasAqi(r) =>
                          /\ res.score = _aqi_to_level(r.aqi).val
                          /\ res.reasons[2].label \in {"", "Normal"}
                          /\ res.driver # "PM2.5"
                    /\ HasPm25(r) =>
                          /\ res.score = _pm25_to_level(r.pm2_5)
                          /\ res.reasons[1].label \in {"", "Normal"}
                          /\ res.driver # "AQI"

\* The rows of the city in table order, those at the positions in S.
RowsAt(S) == SelectSeq([i \in 1..Len(table) |-> [at |-> i, row |-> table[i]]],
                       LAMBDA e : e.at \in S)
RowsOf(S) == [j \in 1..Len(RowsAt(S)) |-> RowsAt(S)[j].row]

\* C7 as claimed: a row of the city is kept if it has a timestamp or at
\* least one reading, and dropped_rows counts the rows that have neither a
\* timestamp nor a reading.
C7_KeptWithTimestampOrReading ==
    pc = "analyze_city" =>
        LET kept == {i \in CityRowsAt :
                        HasTimestamp(table[i]) \/ HasAqi(table[i]) \/ HasPm25(table[i])}
        IN  /\ df_city = RowsOf(kept)
            /\ dropped_rows = Cardinality(CityRowsAt \ kept)

\* C7 amended: a row of the city is kept when it has a timestamp and at
\* least one reading; it is dropped when it has no timestamp or neither
\* reading, dropped_rows counts exactly those rows, and the summary, when one
\* is returned, reports both counts.
C7_KeptWithTimestampAndReading ==
    pc = "analyze_city" =>
        LET kept == {i \in CityRowsAt :
                        HasTimestamp(table[i]) /\ (HasAqi(table[i]) \/ HasPm25(table[i]))}
        IN  /\ df_city = RowsOf(kept)
            /\ dropped_rows = Cardinality(CityRowsAt \ kept)
            /\ ~h_out.exc =>
                  /\ h_out.val.dropped_rows = Cardinality(CityRowsAt \ kept)
                  /\ h_out.val.total_measurements = Cardinality(kept)

\* A row with readings and no timestamp and a row with a timestamp and no
\* reading, both dropped.
C7_Witness ==
    /\ pc = "analyze_city"
    /\ Len(table) = 2
    /\ h_city = "Almaty"
    /\ ~HasTimestamp(table[1]) /\ HasAqi(table[1]) /\ HasPm25(table[1])
    /\ HasTimestamp(table[2]) /\ ~HasAqi(table[2]) /\ ~HasPm25(table[2])
    /\ table[1].city = h_city /\ table[2].city = h_city
    /\ dropped_rows = 2
    /\ df_city = <<>>
    /\ ~h_out.exc
    /\ h_out.val.total_measurements = 0

\* The call returned a summary of at least one kept row.
SummaryOfRows == pc = "analyze_city" /\ ~h_out.exc /\ Len(df_city) > 0

\* The score interpret gives a row, and the largest score of the kept rows.
RowScore(r) == interpret(r.aqi, r.pm2_5, "", "").val.score
MaxScore ==
    CHOOSE m \in 0..3 :
        /\ \E i \in 1..Len(df_city) : RowScore(df_city[i]) = m
        /\ \A i \in 1..Len(df_city) : RowScore(df_city[i]) <= m

\* C14: for a non-empty kept set, worst_moment is a kept row whose score is
\* the largest score of the kept rows, no other row with that score has a
\* strictly earlier timestamp, and its risk_level is the label of that score.
C14_WorstMomentMaxScoreEarliest ==
    SummaryOfRows =>
        LET w == h_out.val.worst_moment
        IN  /\ w.k = "dict"
            /\ w.risk_level = LevelName(MaxScore)
            /\ \E i \in 1..Len(df_city) :
                  /\ df_city[i].timestamp = w.timestamp
                  /\ RowScore(df_city[i]) = MaxScore
                  /\ w.reasons = interpret(df_city[i].aqi, df_city[i].pm2_5, "", "").val.reasons
                  /\ \A j \in 1..Len(df_city) :
                        RowScore(df_city[j]) = MaxScore
                            => df_city[j].timestamp.v >= df_city[i].timestamp.v

\* Two kept rows with the same largest score, the later one first in the
\* file: the second row is the worst moment.
C14_Witness ==
    /\ SummaryOfRows
    /\ Len(df_city) = 2
    /\ RowScore(df_city[1]) = RowScore(df_city[2])
    /\ df_city[2].timestamp.v < df_city[1].timestamp.v
    /\ h_out.val.worst_moment.timestamp = df_city[2].timestamp

\* The calendar dates of the kept rows and the kept rows of one date.
KeptDates == {DateOf(df_city[i].timestamp) : i \in 1..Len(df_city)}
RowsOfDate(d) == {i \in 1..Len(df_city) : DateOf(df_city[i].timestamp) = d}

\* 100 * (rows of the date at one of the levels) / (rows of the date).
DayShare(d, levels) ==
    Frac(100 * Cardinality({i \in RowsOfDate(d) :
                               LevelName(RowScore(df_city[i])) \in levels}),
         Cardinality(RowsOfDate(d)))

\* A day with share sa and count na does not come after a day with share sb
\* and count nb under the key (share descending, count descending).
NotAfter(sa, na, sb, nb) == FracGT(sa, sb) \/ (FracEQ(sa, sb) /\ na >= nb)

\* One listed day reports its shares, its count and a representative row.
DayEntryRight(entry) ==
    LET d == entry.date
        rw == entry.representative_worst
    IN  /\ d \in KeptDates
        /\ entry.n = Cardinality(RowsOfDate(d))
        /\ FracEQ(entry.moderate_or_worse_share, DayShare(d, MODERATE_OR_WORSE_LEVELS))
        /\ FracEQ(entry.unhealthy_or_worse_share, DayShare(d, BAD_LEVELS))
        /\ \E i \in RowsOfDate(d) :
              /\ rw.timestamp = TsStr(df_city[i].timestamp)
              /\ rw.score = RowScore(df_city[i])
              /\ \A j \in RowsOfDate(d) :
                    /\ RowScore(df_city[j]) <= rw.score
                    /\ RowScore(df_city[j]) = rw.score
                          => df_city[j].timestamp.v >= df_city[i].timestamp.v

\* The list holds the first min(3, days) days of the order by the share of
\* the levels (the field share of an entry), then by count.
TopListRight(list, share, levels) ==
    /\ Len(list) = (IF Cardinality(KeptDates) < 3 THEN Cardinality(KeptDates) ELSE 3)
    /\ \A a \in 1..Len(list) : DayEntryRight(list[a])
    /\ \A a, b \in 1..Len(list) :
          a < b => /\ list[a].date # list[b].date
                   /\ NotAfter(list[a][share], list[a].n, list[b][share], list[b].n)
    /\ \A d \in KeptDates \ {list[a].date : a \in 1..Len(list)} :
          LET sd == DayShare(d, levels)
              nd == Cardinality(RowsOfDate(d))
          IN  \A a \in 1..Len(list) :
                  NotAfter(list[a][share], list[a].n, sd, nd)

\* C15: the kept rows are grouped by calendar date; each top list is the
\* first min(3, days) days ordered by its share descending, then by the
\* day's count descending; each listed day's share is 100 * (rows of the day
\* at or above the level) / (rows of the day), and its representative_worst
\* is a row of the day with the day's largest score and, among those, the
\* earliest timestamp.
C15_TopBadDays ==
    SummaryOfRows =>
        /\ TopListRight(h_out.val.top_bad_windows_moderate_or_worse,
                        "moderate_or_worse_share", MODERATE_OR_WORSE_LEVELS)
        /\ TopListRight(h_out.val.top_bad_windows_unhealthy_or_worse,
                        "unhealthy_or_worse_share", BAD_LEVELS)

\* Four days, of which three are listed, and the two lists start with
\* different days.
C15_Witness ==
    /\ SummaryOfRows
    /\ Cardinality(KeptDates) = 4
    /\ Len(h_out.val.top_bad_windows_moderate_or_worse) = 3
    /\ Len(h_out.val.top_bad_windows_unhealthy_or_worse) = 3
    /\ h_out.val.top_bad_windows_moderate_or_worse[1].date
          # h_out.val.top_bad_windows_unhealthy_or_worse[1].date

\* The call was made and no row of the city was kept.
NothingKept == pc = "analyze_city" /\ df_city = <<>>

\* C16: when no row of the city is kept (it has no rows, or all are
\* dropped), analyze_city_from_csv does not raise and returns
\* total_measurements = 0, period_start and period_end null, worst_moment
\* null, both shares 0, empty top-bad-day lists, and the fallback summary
\* sentence, which names the city.
C16_EmptySummary ==
    NothingKept =>
        /\ ~h_out.exc
        /\ h_out.val.total_measurements = 0
        /\ h_out.val.period_start.k = "None"
        /\ h_out.val.period_end.k = "None"
        /\ h_out.val.worst_moment.k = "None"
        /\ h_out.val.moderate_or_worse_share_pct.n = 0
        /\ h_out.val.unhealthy_or_worse_share_pct.n = 0
        /\ h_out.val.top_bad_windows_moderate_or_worse = <<>>
        /\ h_out.val.top_bad_windows_unhealthy_or_worse = <<>>
        /\ h_out.val.top_bad_windows = <<>>
        /\ h_out.val.summary.kind = "no_valid_measurements"
        /\ h_out.val.summary.city = h_city
        /\ h_out.val.summary.city # ""

\* A table with a row of another city and a row of the city without a
\* timestamp: nothing is kept.
C16_Witness ==
    /\ NothingKept
    /\ Len(table) = 2
    /\ table[1].city # h_city
    /\ table[2].city = h_city
    /\ dropped_rows = 1
    /\ ~h_out.exc
    /\ h_out.val.total_measurements = 0

\* The count the distribution reports for a level, 0 for a level it lacks.
CountOfLevel(dist, lvl) == IF lvl \in DOMAIN dist THEN dist[lvl].count ELSE 0

\* C17: for a non-empty kept set, the counts of the levels present in the
\* distribution sum to total_measurements, and each pct is
\* 100 * count / total_measurements.
C17_DistributionSumsToTotal ==
    SummaryOfRows =>
        LET dist == h_out.val.distribution
            total == h_out.val.total_measurements
        IN  /\ total = Len(df_city)
            /\ DOMAIN dist \subseteq {LEVEL_NAMES[k] : k \in 1..4}
            /\ CountOfLevel(dist, "Normal") + CountOfLevel(dist, "Moderate")
                 + CountOfLevel(dist, "Unhealthy") + CountOfLevel(dist, "Hazardous")
                 = total
            /\ \A lvl \in DOMAIN dist :
                  /\ dist[lvl].count >= 1
                  /\ FracEQ(dist[lvl].pct, Frac(100 * dist[lvl].count, total))

\* Two kept rows of different levels: two entries of count 1 and pct 50.
C17_Witness ==
    /\ SummaryOfRows
    /\ h_out.val.total_measurements = 2
    /\ Cardinality(DOMAIN h_out.val.distribution) = 2
    /\ \A lvl \in DOMAIN h_out.val.distribution :
          /\ h_out.val.distribution[lvl].count = 1
          /\ FracEQ(h_out.val.distribution[lvl].pct, Frac(50, 1))

\* C18 as claimed: a result of interpret is not changed by the aggregator:
\* every result held for a kept row, and every representative_worst of the
\* summary, has exactly the fields and values interpret returned for the row.
C18_ResultsNotChanged ==
    SummaryOfRows =>
        LET fresh == {_apply_interpret_row(df_city[i]).val : i \in 1..Len(df_city)}
            lists == <<h_out.val.top_bad_windows_moderate_or_worse,
                       h_out.val.top_bad_windows_unhealthy_or_worse,
                       h_out.val.top_bad_windows>>
        IN  /\ \A i \in 1..Len(df_city) :
                  DOMAIN Interpretations(df_city)[i]
                      = DOMAIN _apply_interpret_row(df_city[i]).val
            /\ \A l \in 1..3 : \A a \in 1..Len(lists[l]) :
                  \E f \in fresh :
                      DOMAIN lists[l][a].representative_worst = DOMAIN f

\* C20: dropped_rows + total_measurements is the number of rows of the
\* requested city, the three drivers_distribution counts sum to
\* total_measurements, and
\* unhealthy_or_worse_share_pct <= moderate_or_worse_share_pct <= 100.
C20_RowConservation ==
    (pc = "analyze_city" /\ ~h_out.exc) =>
        LET o == h_out.val
        IN  /\ o.dropped_rows + o.total_measurements = Cardinality(CityRowsAt)
            /\ o.drivers_distribution["AQI"].count
                 + o.drivers_distribution["PM2.5"].count
                 + o.drivers_distribution["Both"].count = o.total_measurements
            /\ FracLE(o.unhealthy_or_worse_share_pct, o.moderate_or_worse_share_pct)
            /\ FracLE(o.moderate_or_worse_share_pct, Frac(100, 1))

\* Two rows of the city, one dropped for its missing readings and one kept.
C20_Witness ==
    /\ pc = "analyze_city"
    /\ ~h_out.exc
    /\ Cardinality(CityRowsAt) = 2
    /\ h_out.val.dropped_rows = 1
    /\ h_out.val.total_measurements = 1
    /\ \E i \in CityRowsAt : HasTimestamp(table[i]) /\ ~HasAqi(table[i]) /\ ~HasPm25(table[i])

---------------------------------------------------------------------------
(* Claims about the report builder *)

\* The rows of the city, and whether one of them has a parseable timestamp.
SomeTimestamp == \E i \in 1..Len(df_city) : HasTimestamp(df_city[i])

\* C19 as claimed: whenever a row of the city has a parseable timestamp, the
\* row used for current is a row of the city with the greatest parseable
\* timestamp, also when other rows have none; only when no row has one is
\* the last row in file order used.
C19_CurrentIsLatestParseable ==
    (pc = "build_city_report" /\ Len(df_city) > 0) =>
        /\ Len(r_last) = 1
        /\ IF SomeTimestamp
           THEN /\ HasTimestamp(r_last[1])
                /\ \E i \in 1..Len(df_city) : df_city[i] = r_last[1]
                /\ \A i \in 1..Len(df_city) :
                      HasTimestamp(df_city[i])
                          => df_city[i].timestamp.v <= r_last[1].timestamp.v
                /\ ~r_out.exc => r_out.val.current.timestamp = r_last[1].timestamp
           ELSE r_last[1] = df_city[Len(df_city)]

=============================================================================
